---- MODULE Spec2Model ----
(***************************************************************************)
(* The consensus worker of pd (src/pd/src/consensus/worker.rs): one task   *)
(* that takes block-lifecycle requests off a queue and runs init_chain,    *)
(* begin_block, deliver_tx, end_block (with end_epoch) and commit against  *)
(* a pending block and the chain state store.                              *)
(*                                                                         *)
(* Integers are scaled down: u64 is 0..U64Max and i64 is I64Min..I64Max    *)
(* with U64Max = 2*I64Max+1 and I64Min = -I64Max-1, so that the relation   *)
(* between the two types (|i64::MIN| fits u64 but not i64) is kept.  The   *)
(* fixed-point rate arithmetic of penumbra_stake is scaled to RateUnit.    *)
(***************************************************************************)
EXTENDS Integers, Sequences, FiniteSets, TLC

\* ---------------------------------------------------------------- bounds
NumValidators == 2          \* validators of the genesis document
MaxHeight == 2              \* heights of blocks the engine proposes
I64Max == 7                 \* scaled i64::MAX

U64Max == 2 * I64Max + 1
I64Min == 0 - I64Max - 1
U64 == 0..U64Max

\* Identity keys.  The genesis validators are the first NumValidators of
\* them; one more key stands for a validator defined after genesis.
GenesisValidators == 1..NumValidators
Validators == 1..(NumValidators + 1)
UnknownKey == 0             \* a consensus key of no validator

\* Asset ids: the staking token, and the delegation token of each validator.
STAKING_TOKEN_ASSET_ID == 0
DelegationToken(v) == v
Assets == {STAKING_TOKEN_ASSET_ID} \cup Validators

\* ---------------------------------------------------------------- Option
None == << >>
Some(x) == << x >>
IsSome(o) == Len(o) = 1
IsNone(o) == Len(o) = 0
Unwrap(o) == o[1]

Min2(a, b) == IF a < b THEN a ELSE b
Abs(x) == IF x < 0 THEN 0 - x ELSE x

\* Sequence of the elements of a finite set of integers, ascending.
RECURSIVE SortedSeq(_)
SortedSeq(S) ==
  IF S = {} THEN << >>
  ELSE LET m == CHOOSE x \in S : \A y \in S : x <= y
       IN << m >> \o SortedSeq(S \ {m})

Range(s) == { s[i] : i \in DOMAIN s }

\* ------------------------------------------------- integer arithmetic
\* u64::checked_add / checked_sub: None when the result leaves 0..U64Max.
checked_add(a, b) == IF a + b > U64Max THEN None ELSE Some(a + b)
checked_sub(a, b) == IF a - b < 0 THEN None ELSE Some(a - b)

\* Two's-complement wrap of an integer into the i64 range.
WrapI64(x) == ((x - I64Min) % (I64Max - I64Min + 1)) + I64Min
InI64(x) == x >= I64Min /\ x <= I64Max

\* The unchecked i64 operators `+=` and `.abs()`: with overflow checks
\* compiled in (debug profile) an overflow panics, without them (release
\* profile) the result wraps.  None stands for the panic.
AddI64(a, b, checks) ==
  IF InI64(a + b) THEN Some(a + b)
  ELSE IF checks THEN None ELSE Some(WrapI64(a + b))
AbsI64(a, checks) ==
  IF InI64(Abs(a)) THEN Some(Abs(a))
  ELSE IF checks THEN None ELSE Some(WrapI64(Abs(a)))
\* `x as u64` for an i64 x: reinterpretation modulo 2^64.
AsU64(x) == x % (U64Max + 1)

\* ------------------------------------------------- penumbra_stake
RateUnit == 4               \* fixed-point 1.0 of the rate arithmetic
BASE_REWARD_RATE == 2       \* base reward per epoch, in RateUnit-ths

\* BaseRateData::next
BaseRateNext(b, reward) ==
  [epoch_index |-> b.epoch_index + 1,
   rate |-> (b.rate * (RateUnit + reward)) \div RateUnit,
   reward |-> reward]

RECURSIVE SumCommission(_)
SumCommission(streams) ==
  IF streams = << >> THEN 0
  ELSE Head(streams).rate + SumCommission(Tail(streams))

\* RateData::next: the validator's reward rate is the base reward less the
\* commission of its funding streams; the exchange rate compounds by it.
RateNext(r, next_base, streams) ==
  LET reward == (next_base.reward * (RateUnit - SumCommission(streams))) \div RateUnit
  IN [epoch_index |-> r.epoch_index + 1,
      rate |-> (r.rate * (RateUnit + reward)) \div RateUnit]

\* RateData::unbonded_amount: staking tokens implied by delegation tokens.
\* None when the amount does not fit u64.
unbonded_amount(r, amount) ==
  LET x == (amount * r.rate) \div RateUnit
  IN IF x > U64Max THEN None ELSE Some(x)

\* RateData::voting_power
voting_power(r, supply, base) == Min2((supply * r.rate) \div base.rate, U64Max)

\* FundingStream::reward_amount
reward_amount(stream, supply, next_base, cur_base) ==
  Min2((supply * stream.rate * (next_base.rate - cur_base.rate)) \div (RateUnit * RateUnit), U64Max)

\* RateData::slash: the exchange rate is cut by the slashing penalty.
RateSlash(r, penalty) ==
  [r EXCEPT !.rate = (r.rate * (RateUnit - penalty)) \div RateUnit]

\* Epoch::from_height and Epoch::end_height
EpochIndex(height, epoch_duration) == height \div epoch_duration
EpochEndHeight(index, epoch_duration) == (index + 1) * epoch_duration - 1

\* ------------------------------------------------- request payloads
NoDelegation == << >>

\* Transactions the engine may deliver.  decodes / stateless / stateful say
\* which verification stage the bytes pass (Transaction::decode,
\* verify_stateless, verify_stateful); the rest is what the verified
\* transaction carries.
TxShape(dec, sl, sf, nfs, outs, deleg, qn, qf) ==
  [decodes |-> dec, stateless |-> sl, stateful |-> sf,
   spent_nullifiers |-> nfs, outputs |-> outs, delegation |-> deleg,
   quarantined_notes |-> qn, quarantined_nullifiers |-> qf]

TxPool ==
  << TxShape(FALSE, FALSE, FALSE, {1}, {1}, NoDelegation, {}, {}),
     TxShape(TRUE, FALSE, FALSE, {1}, {1}, NoDelegation, {}, {}),
     TxShape(TRUE, TRUE, FALSE, {1}, {1}, NoDelegation, {}, {}),
     TxShape(TRUE, TRUE, TRUE, {1}, {1}, << 1, 2 >>, {}, {}),
     TxShape(TRUE, TRUE, TRUE, {1, 2}, {2}, << 1, 0 - 1 >>, {<< 1, 3 >>}, {<< 1, 5 >>}),
     TxShape(TRUE, TRUE, TRUE, {6}, {}, << NumValidators, I64Min >>, {}, {}) >>
Txs == DOMAIN TxPool

\* Genesis documents.  An allocation is << asset id, amount >>.
GenesisAllocations ==
  << << >>,
     << << STAKING_TOKEN_ASSET_ID, 4 >>, << STAKING_TOKEN_ASSET_ID, 2 >>,
        << DelegationToken(1), 3 >> >>,
     << << STAKING_TOKEN_ASSET_ID, 1 >>, << DelegationToken(NumValidators), U64Max >> >>,
     << << STAKING_TOKEN_ASSET_ID, U64Max >>, << DelegationToken(1), 3 >> >>,
     << << STAKING_TOKEN_ASSET_ID, U64Max >>, << STAKING_TOKEN_ASSET_ID, 1 >> >> >>

AppState(dec, d, u, l, a) ==
  [decodes |-> dec, epoch_duration |-> d, unbonding_epochs |-> u,
   validator_limit |-> l, allocations |-> GenesisAllocations[a]]

GenesisPool ==
  { AppState(FALSE, 1, 1, 0, 2),
    AppState(TRUE, 1, 1, 0, 1),
    AppState(TRUE, 1, 1, 0, 4),
    AppState(TRUE, 1, 0, 1, 2),
    AppState(TRUE, 1, 2, 1, 2),
    AppState(TRUE, 2, 0, 1, 2),
    AppState(TRUE, 1, 1, NumValidators, 3),
    AppState(TRUE, 1, 1, 0, 5) }

\* Byzantine-evidence lists: consensus keys, in order.
EvidencePool ==
  { << >>, << UnknownKey >> } \cup { << v >> : v \in GenesisValidators }

\* Funding streams of the genesis validators: << rate, address >> records.
GenesisFundingStreams(v) ==
  IF v = 1 THEN << [rate |-> 2, address |-> 1] >> ELSE << >>
GenesisPower(v) == 1
SLASHING_PENALTY == 2       \* chain_params.slashing_penalty, in RateUnit-ths

\* ------------------------------------------------- PendingBlock
NoUpdate == 0 - 1

\* PendingBlock::new
PendingBlockNew(nct, block_validators) ==
  [height |-> None, epoch |-> None,
   note_commitment_tree |-> nct,
   notes |-> {},
   spent_nullifiers |-> {},
   quarantined_notes |-> {}, quarantined_nullifiers |-> {},
   reverting_notes |-> {}, reverting_nullifiers |-> {},
   unbonding_nullifiers |-> {},
   supply_updates |-> [a \in Assets |-> NoUpdate],
   slashed_validators |-> {},
   delegation_changes |-> [v \in Validators |-> 0],
   reward_notes |-> << >>,
   validator_state_machine |-> block_validators,
   next_rates |-> None, next_base_rate |-> None,
   next_validator_statuses |-> None]

\* PendingBlock::set_height
set_height(pb, height, epoch_duration) ==
  [pb EXCEPT !.height = Some(height),
             !.epoch = Some(EpochIndex(height, epoch_duration))]

\* PendingBlock::add_note: the commitment enters the note buffer and the
\* block's clone of the accumulator.
add_note(pb, commitment) ==
  [pb EXCEPT !.notes = @ \cup {commitment},
             !.note_commitment_tree = @ \cup {commitment}]

RECURSIVE add_notes(_, _)
add_notes(pb, commitments) ==
  IF commitments = {} THEN pb
  ELSE LET c == CHOOSE x \in commitments : TRUE
       IN add_notes(add_note(pb, c), commitments \ {c})

\* PendingBlock::add_transaction.  None when the i64 delegation delta
\* overflows in a build with overflow checks.
add_transaction(pb, tx, checks) ==
  LET staged == [add_notes(pb, tx.outputs) EXCEPT
                   !.spent_nullifiers = @ \cup tx.spent_nullifiers,
                   !.quarantined_notes = @ \cup tx.quarantined_notes,
                   !.quarantined_nullifiers = @ \cup tx.quarantined_nullifiers]
  IN IF tx.delegation = NoDelegation THEN Some(staged)
     ELSE LET v == tx.delegation[1]
              sum == AddI64(pb.delegation_changes[v], tx.delegation[2], checks)
          IN IF IsNone(sum) THEN None
             ELSE Some([staged EXCEPT !.delegation_changes[v] = Unwrap(sum)])

\* PendingBlock::slash_validator: None (an Err) for a consensus key of no
\* validator; else the validator is marked Slashed, its rate is cut by the
\* penalty and it joins slashed_validators.
slash_validator(pb, ck, penalty) ==
  IF ck \notin DOMAIN pb.validator_state_machine THEN None
  ELSE Some([pb EXCEPT
         !.validator_state_machine[ck].state = "Slashed",
         !.validator_state_machine[ck].unbonding_epoch = 0,
         !.validator_state_machine[ck].rate_data = RateSlash(@, penalty),
         !.slashed_validators = @ \cup {ck}])

\* ValidatorStateMachine iterators
validators_info(vsm) == SortedSeq(DOMAIN vsm)
unslashed_validators(vsm) == { v \in DOMAIN vsm : vsm[v].state /= "Slashed" }
slashed_validators(vsm) == { v \in DOMAIN vsm : vsm[v].state = "Slashed" }

\* ------------------------------------------------- end_epoch
\* hold_rate_constant leaving the epoch index of the current rate in place.
hold_rate_constant_keeping_epoch(current_rate, next_epoch) == current_rate

\* hold_rate_constant: the next epoch's rate is the current rate.
hold_rate_constant(current_rate, next_epoch) ==
  [current_rate EXCEPT !.epoch_index = next_epoch]

\* The status of a held validator staged without its voting power.
StatusOf_without_power(v, info) ==
  [identity_key |-> v, voting_power |-> 0,
   state |-> info.state, unbonding_epoch |-> info.unbonding_epoch]

\* validator.status.clone(): the status a held validator is staged with.
StatusOf(v, info) ==
  [identity_key |-> v, voting_power |-> info.voting_power,
   state |-> info.state, unbonding_epoch |-> info.unbonding_epoch]

\* A merge that takes only the first entry the iteration yields.
MergeDelegationChanges_first_only(persisted, in_block, order, checks) ==
  IF order = << >> THEN Some(persisted)
  ELSE LET sum == AddI64(persisted[Head(order)], in_block[Head(order)], checks)
       IN IF IsNone(sum) THEN None
          ELSE Some([persisted EXCEPT ![Head(order)] = Unwrap(sum)])

\* The merge leaving out the entry its iteration yields last.
RECURSIVE MergeDelegationChanges_skip_last(_, _, _, _)
MergeDelegationChanges_skip_last(persisted, in_block, order, checks) ==
  IF Len(order) <= 1 THEN Some(persisted)
  ELSE LET k == Head(order)
           sum == AddI64(persisted[k], in_block[k], checks)
       IN IF IsNone(sum) THEN None
          ELSE MergeDelegationChanges_skip_last(
                 [persisted EXCEPT ![k] = Unwrap(sum)], in_block, Tail(order),
                 checks)

\* The merge of the persisted delegation changes of the closed epoch with
\* the in-block deltas (`+=` on i64), over the entries of the block's map in
\* the order its iteration yields them.  None when an addition panics.
RECURSIVE MergeDelegationChanges(_, _, _, _)
MergeDelegationChanges(persisted, in_block, order, checks) ==
  IF order = << >> THEN Some(persisted)
  ELSE LET k == Head(order)
           sum == AddI64(persisted[k], in_block[k], checks)
       IN IF IsNone(sum) THEN None
          ELSE MergeDelegationChanges([persisted EXCEPT ![k] = Unwrap(sum)],
                                      in_block, Tail(order), checks)

\* The loop body holding the rate of Inactive validators only.
HoldsRate_inactive_only(st) == st = "Inactive"

\* Whether the loop body holds the rate of a validator in this state.
HoldsRate(st) == st \in {"Slashed", "Inactive"}

\* One iteration of the per-validator loop.  acc carries the loop's locals:
\* ok (no panic so far), staking_token_supply, the block's supply_updates,
\* next_rates, next_validator_statuses, reward_notes.
EpochLoopBody(acc, v, pb, st, dc, next_base, cur_base, next_epoch, checks) ==
  LET info == pb.validator_state_machine[v]
      current_rate == info.rate_data
  IN
  IF HoldsRate(info.state)
  THEN [acc EXCEPT
          !.next_rates = Append(@, hold_rate_constant(current_rate, next_epoch)),
          !.next_validator_statuses = Append(@, StatusOf(v, info))]
  ELSE
  LET streams == st.funding_streams[v]
      next_rate == RateNext(current_rate, next_base, streams)
      delegation_delta == dc[v]
      abs == AbsI64(delegation_delta, checks)
  IN
  IF IsNone(abs) THEN [acc EXCEPT !.ok = FALSE]
  ELSE
  LET delegation_amount == AsU64(Unwrap(abs))
      unbonded == unbonded_amount(current_rate, delegation_amount)
      looked_up == st.supply[DelegationToken(v)]
      delegation_token_supply == IF looked_up = NoUpdate THEN 0 ELSE looked_up
  IN
  IF IsNone(unbonded) THEN [acc EXCEPT !.ok = FALSE]
  ELSE
  LET staking == IF delegation_delta > 0
                 THEN checked_sub(acc.staking_token_supply, Unwrap(unbonded))
                 ELSE checked_add(acc.staking_token_supply, Unwrap(unbonded))
      deleg == IF delegation_delta > 0
               THEN checked_add(delegation_token_supply, delegation_amount)
               ELSE checked_sub(delegation_token_supply, delegation_amount)
  IN
  IF IsNone(staking) \/ IsNone(deleg) THEN [acc EXCEPT !.ok = FALSE]
  ELSE
  LET power == voting_power(next_rate, Unwrap(deleg), next_base)
      next_status == [identity_key |-> v, voting_power |-> power,
                      state |-> info.state,
                      unbonding_epoch |-> info.unbonding_epoch]
      rewards == [i \in DOMAIN streams |->
                    << reward_amount(streams[i], Unwrap(deleg), next_base, cur_base),
                       streams[i].address >>]
  IN [acc EXCEPT
        !.staking_token_supply = Unwrap(staking),
        !.supply_updates[DelegationToken(v)] = Unwrap(deleg),
        !.reward_notes = @ \o rewards,
        !.next_rates = Append(@, next_rate),
        !.next_validator_statuses = Append(@, next_status)]

RECURSIVE EpochLoop(_, _, _, _, _, _, _, _, _)
EpochLoop(acc, order, pb, st, dc, next_base, cur_base, next_epoch, checks) ==
  IF order = << >> \/ ~acc.ok THEN acc
  ELSE EpochLoop(
         EpochLoopBody(acc, Head(order), pb, st, dc, next_base, cur_base,
                       next_epoch, checks),
         Tail(order), pb, st, dc, next_base, cur_base, next_epoch, checks)

\* Itertools::sorted_by(|a, b| b.voting_power.cmp(&a.voting_power)): a
\* stable sort, voting power descending.
RECURSIVE sorted_by(_)
sorted_by(statuses) ==
  IF statuses = << >> THEN << >>
  ELSE LET i == CHOOSE j \in DOMAIN statuses :
                  /\ \A k \in DOMAIN statuses :
                       statuses[k].voting_power <= statuses[j].voting_power
                  /\ \A k \in 1..(j - 1) :
                       statuses[k].voting_power < statuses[j].voting_power
           rest == [k \in 1..(Len(statuses) - 1) |->
                      IF k < i THEN statuses[k] ELSE statuses[k + 1]]
       IN << statuses[i] >> \o sorted_by(rest)

\* The ranked statuses cut one place too late.
top_validators_off_by_one(statuses, validator_limit) ==
  LET ranked == sorted_by(statuses)
  IN { ranked[i].identity_key : i \in 1..Min2(validator_limit + 1, Len(ranked)) }

\* .take(validator_limit).map(|v| v.identity_key)
top_validators(statuses, validator_limit) ==
  LET ranked == sorted_by(statuses)
  IN { ranked[i].identity_key : i \in 1..Min2(validator_limit, Len(ranked)) }

\* The transition with the expiry of an Unbonding status tested before the
\* promotion.
NextState_expiry_first(status, top, current_epoch, unbonding_epochs) ==
  IF status.state = "Unbonding" /\ status.unbonding_epoch <= current_epoch
  THEN [status EXCEPT !.state = "Inactive", !.unbonding_epoch = 0]
  ELSE IF status.state \in {"Inactive", "Unbonding"} /\ status.identity_key \in top
  THEN [status EXCEPT !.state = "Active", !.unbonding_epoch = 0]
  ELSE IF status.state = "Active" /\ status.identity_key \notin top
  THEN IF unbonding_epochs = 0
       THEN [status EXCEPT !.state = "Inactive", !.unbonding_epoch = 0]
       ELSE [status EXCEPT !.state = "Unbonding",
                           !.unbonding_epoch = current_epoch + unbonding_epochs]
  ELSE status

\* The transition with the expiry tested only on a status that was Unbonding
\* before the rotation.
NextState_expiry_of_old_only(status, top, current_epoch, unbonding_epochs) ==
  IF status.state \in {"Inactive", "Unbonding"} /\ status.identity_key \in top
  THEN [status EXCEPT !.state = "Active", !.unbonding_epoch = 0]
  ELSE IF status.state = "Active" /\ status.identity_key \notin top
  THEN [status EXCEPT !.state = "Unbonding",
                      !.unbonding_epoch = current_epoch + unbonding_epochs]
  ELSE IF status.state = "Unbonding" /\ status.unbonding_epoch <= current_epoch
  THEN [status EXCEPT !.state = "Inactive", !.unbonding_epoch = 0]
  ELSE status

\* The state transition of one staged status at the epoch change.
NextState(status, top, current_epoch, unbonding_epochs) ==
  LET promoted ==
        IF status.state \in {"Inactive", "Unbonding"}
        THEN IF status.identity_key \in top
             THEN [status EXCEPT !.state = "Active", !.unbonding_epoch = 0]
             ELSE status
        ELSE IF status.state = "Active"
        THEN IF status.identity_key \notin top
             THEN [status EXCEPT !.state = "Unbonding",
                                 !.unbonding_epoch = current_epoch + unbonding_epochs]
             ELSE status
        ELSE status
  IN IF promoted.state = "Unbonding" /\ promoted.unbonding_epoch <= current_epoch
     THEN [promoted EXCEPT !.state = "Inactive", !.unbonding_epoch = 0]
     ELSE promoted

\* The rotation writing the statuses back in ranked order instead of in place.
Rotate_ranked(statuses, validator_limit, current_epoch, unbonding_epochs) ==
  LET top == top_validators(statuses, validator_limit)
      ranked == sorted_by(statuses)
  IN [i \in DOMAIN ranked |->
        NextState(ranked[i], top, current_epoch, unbonding_epochs)]

Rotate(statuses, validator_limit, current_epoch, unbonding_epochs) ==
  LET top == top_validators(statuses, validator_limit)
  IN [i \in DOMAIN statuses |->
        NextState(statuses[i], top, current_epoch, unbonding_epochs)]

\* ------------------------------------------------- state store
Epochs == 0..(MaxHeight + 1)

\* The store before genesis.
EmptyStore ==
  [initialized |-> FALSE, height |-> 0,
   chain_params |-> [epoch_duration |-> 1, unbonding_epochs |-> 0,
                     validator_limit |-> 0, slashing_penalty |-> 0],
   validators |-> << >>,
   funding_streams |-> << >>,
   base_rate |-> [epoch_index |-> 0, rate |-> RateUnit, reward |-> 0],
   supply |-> [a \in Assets |-> NoUpdate],
   delegation_changes |-> [e \in Epochs |-> [v \in Validators |-> 0]],
   note_commitment_tree |-> {},
   notes |-> {}, nullifiers |-> {},
   quarantined_notes |-> {}, quarantined_nullifiers |-> {}]

\* state::Writer::commit_genesis: chain parameters, the genesis validators
\* (Active, with their genesis power and the unit rate) and their funding
\* streams, and the base rate.
commit_genesis(st, app_state) ==
  [st EXCEPT
     !.initialized = TRUE,
     !.chain_params = [epoch_duration |-> app_state.epoch_duration,
                       unbonding_epochs |-> app_state.unbonding_epochs,
                       validator_limit |-> app_state.validator_limit,
                       slashing_penalty |-> SLASHING_PENALTY],
     !.validators = [v \in GenesisValidators |->
                       [state |-> "Active", unbonding_epoch |-> 0,
                        voting_power |-> GenesisPower(v),
                        rate_data |-> [epoch_index |-> 1, rate |-> RateUnit]]],
     !.funding_streams = [v \in GenesisValidators |-> GenesisFundingStreams(v)],
     !.base_rate = [epoch_index |-> 1, rate |-> RateUnit,
                    reward |-> BASE_REWARD_RATE]]

\* Reader::quarantined_notes / quarantined_nullifiers: the entries of the
\* given validators, up to the given unbonding height when one is given.
quarantined(entries, height, validators) ==
  { e.item : e \in { x \in entries :
                       /\ x.validator \in validators
                       /\ (IsNone(height) \/ x.height <= Unwrap(height)) } }

\* state::Writer::commit_block: applies every staged mutation of the block.
\* None (an Err) when the block carries no height or a delegation total
\* leaves the i64 range of the store.
commit_block(st, pb) ==
  IF IsNone(pb.height) \/ IsNone(pb.epoch) THEN None
  ELSE
  LET height == Unwrap(pb.height)
      epoch == Unwrap(pb.epoch)
      unbonding_height ==
        height + st.chain_params.unbonding_epochs * st.chain_params.epoch_duration
      totals == [v \in Validators |->
                   st.delegation_changes[epoch][v] + pb.delegation_changes[v]]
      gone_notes == pb.reverting_notes \cup pb.notes
      gone_nullifiers == pb.reverting_nullifiers \cup pb.unbonding_nullifiers
      staged_validators ==
        IF IsSome(pb.next_validator_statuses)
        THEN LET statuses == Unwrap(pb.next_validator_statuses)
                 rates == Unwrap(pb.next_rates)
                 at(v) == CHOOSE i \in DOMAIN statuses : statuses[i].identity_key = v
             IN [v \in DOMAIN st.validators |->
                   [state |-> statuses[at(v)].state,
                    unbonding_epoch |-> statuses[at(v)].unbonding_epoch,
                    voting_power |-> statuses[at(v)].voting_power,
                    rate_data |-> rates[at(v)]]]
        ELSE [v \in DOMAIN st.validators |->
                IF v \in pb.slashed_validators
                THEN pb.validator_state_machine[v]
                ELSE st.validators[v]]
  IN
  IF \E v \in Validators : ~InI64(totals[v]) THEN None
  ELSE Some([st EXCEPT
         !.height = height,
         !.note_commitment_tree = pb.note_commitment_tree,
         !.notes = @ \cup pb.notes,
         !.nullifiers = @ \cup pb.spent_nullifiers \cup pb.unbonding_nullifiers,
         !.quarantined_notes =
            { e \in @ : e.item \notin gone_notes } \cup
            { [validator |-> q[1], height |-> unbonding_height, item |-> q[2]]
                : q \in pb.quarantined_notes },
         !.quarantined_nullifiers =
            { e \in @ : e.item \notin gone_nullifiers } \cup
            { [validator |-> q[1], height |-> unbonding_height, item |-> q[2]]
                : q \in pb.quarantined_nullifiers },
         !.supply = [a \in Assets |->
                       IF pb.supply_updates[a] /= NoUpdate
                       THEN pb.supply_updates[a] ELSE @[a]],
         !.delegation_changes[epoch] = totals,
         !.validators = staged_validators,
         !.base_rate = IF IsSome(pb.next_base_rate)
                       THEN Unwrap(pb.next_base_rate) ELSE @])

\* ------------------------------------------------- end_epoch, whole
\* Every validator of the block, slashed or not.
well_behaved_validators_all(pb) == DOMAIN pb.validator_state_machine

\* The validators whose unbondings end_epoch reveals: those not slashed.
well_behaved_validators(pb) == unslashed_validators(pb.validator_state_machine)

\* The orders in which the iteration of pending_block.delegation_changes can
\* yield its entries: the map holds the validators delegated to or from in
\* the block, which the model keeps as the nonzero values of a total
\* function.  KeyOrder is the order the model's worker iterates in; it
\* passes over the validators without an entry as well, adding 0 for them.
IterationOrders(pb_opt) ==
  LET keys == IF IsNone(pb_opt) THEN {}
              ELSE { v \in Validators : Unwrap(pb_opt).delegation_changes[v] /= 0 }
  IN { o \in [1..Cardinality(keys) -> keys] :
         \A i, j \in DOMAIN o : i /= j => o[i] /= o[j] }

KeyOrder == SortedSeq(Validators)

\* Returns [ok, pb]: ok is FALSE when the handler panics, and pb is then the
\* pending block as the panic leaves it.  order is the order in which the
\* block's delegation changes are iterated.
end_epoch_iterating(pb, st, checks, order) ==
  LET height == Unwrap(pb.height)
      prev_epoch == Unwrap(pb.epoch)
      current_epoch == prev_epoch + 1
      next_epoch == current_epoch + 1
      unbonding_notes ==
        quarantined(st.quarantined_notes, Some(height), well_behaved_validators(pb))
      unbonding_nullifiers ==
        quarantined(st.quarantined_nullifiers, Some(height),
                    well_behaved_validators(pb))
      revealed == [add_notes(pb, unbonding_notes) EXCEPT
                     !.unbonding_nullifiers = @ \cup unbonding_nullifiers]
      current_base_rate == st.base_rate
      next_base_rate == BaseRateNext(current_base_rate, BASE_REWARD_RATE)
      delegation_changes ==
        MergeDelegationChanges(st.delegation_changes[prev_epoch],
                               pb.delegation_changes, order, checks)
  IN
  IF st.supply[STAKING_TOKEN_ASSET_ID] = NoUpdate \/ IsNone(delegation_changes)
  THEN [ok |-> FALSE, pb |-> revealed]
  ELSE
  LET acc == EpochLoop(
               [ok |-> TRUE,
                staking_token_supply |-> st.supply[STAKING_TOKEN_ASSET_ID],
                supply_updates |-> revealed.supply_updates,
                next_rates |-> << >>, next_validator_statuses |-> << >>,
                reward_notes |-> << >>],
               validators_info(pb.validator_state_machine), pb, st,
               Unwrap(delegation_changes), next_base_rate, current_base_rate,
               next_epoch, checks)
      looped == [revealed EXCEPT !.supply_updates = acc.supply_updates]
  IN
  IF ~acc.ok THEN [ok |-> FALSE, pb |-> looped]
  ELSE [ok |-> TRUE,
        pb |-> [looped EXCEPT
                  !.next_rates = Some(acc.next_rates),
                  !.next_base_rate = Some(next_base_rate),
                  !.next_validator_statuses =
                     Some(Rotate(acc.next_validator_statuses,
                                 st.chain_params.validator_limit,
                                 current_epoch, st.chain_params.unbonding_epochs)),
                  !.supply_updates[STAKING_TOKEN_ASSET_ID] = acc.staking_token_supply,
                  !.reward_notes = @ \o acc.reward_notes]]

\* Worker::end_epoch
end_epoch(pb, st, checks) == end_epoch_iterating(pb, st, checks, KeyOrder)

\* ------------------------------------------------- worker
VARIABLES
  state,                 \* the chain state store behind state::Writer
  pending_block,         \* Option<PendingBlock>
  note_commitment_tree,  \* the live accumulator: its set of commitments
  status,                \* "running", or "halted" once a handler panicked
  req,                   \* the kind of request last taken off the queue
  rsp,                   \* the response sent for it, NoRsp when none was sent
  delivered,             \* the transactions accepted into the pending block
  slashed_rate,          \* per validator: the rate its last slashing left it
  overflow_checks,       \* whether the build panics on integer overflow
  rank_input,            \* a status list and a limit handed to the ranking alone
  rank_output,           \* the top validators the ranking selects from it
  replica,               \* a second worker fed the same requests, None if none
  channel                \* the request queue and the response slots, None if
                         \* requests are handed to the handlers directly

vars == << state, pending_block, note_commitment_tree, status, req, rsp,
           delivered, slashed_rate, overflow_checks, rank_input, rank_output,
           replica, channel >>

NoRsp == [type |-> "None", code |-> 0]
Rsp(type, code) == [type |-> type, code |-> code]

\* Handler results: outcome is "ok", "err" (the handler returned Err) or
\* "panic"; the fields are the worker's fields as the handler leaves them.
Result(outcome, pb, nct, st) ==
  [outcome |-> outcome, pending_block |-> pb, note_commitment_tree |-> nct,
   state |-> st]

\* Worker::commit
commit(pb_opt, nct, st) ==
  IF IsNone(pb_opt) THEN Result("panic", pb_opt, nct, st)
  ELSE LET pb == Unwrap(pb_opt)
           committed == commit_block(st, pb)
       IN IF IsNone(committed)
          THEN Result("err", None, pb.note_commitment_tree, st)
          ELSE Result("ok", None, pb.note_commitment_tree, Unwrap(committed))

\* u64 `+=`: panics on overflow with overflow checks, wraps without.
AddU64(a, b, checks) ==
  IF a + b <= U64Max THEN Some(a + b)
  ELSE IF checks THEN None ELSE Some((a + b) % (U64Max + 1))

\* The commitment of the genesis note of the i-th allocation.
GenesisCommitment(i) == 10 + i

\* The allocation loop of init_chain over supply_updates; None on a panic.
RECURSIVE AccumulateAllocations(_, _, _)
AccumulateAllocations(supply_updates, allocations, checks) ==
  IF allocations = << >> THEN Some(supply_updates)
  ELSE LET denom == Head(allocations)[1]
           before == IF supply_updates[denom] = NoUpdate THEN 0
                     ELSE supply_updates[denom]
           sum == AddU64(before, Head(allocations)[2], checks)
       IN IF IsNone(sum) THEN None
          ELSE AccumulateAllocations([supply_updates EXCEPT ![denom] = Unwrap(sum)],
                                     Tail(allocations), checks)

\* The denom loop inserting supply 0 over whatever the allocations summed to.
RegisterDenoms_resetting(supply_updates) ==
  [a \in Assets |->
     IF \E v \in GenesisValidators : a = DelegationToken(v)
     THEN 0 ELSE supply_updates[a]]

\* The loop over app_state.validators: `entry(..).or_insert((denom, 0))`
\* records the delegation-token denom of each genesis validator with supply
\* 0 unless supply_updates has an entry for it.
RegisterDenoms(supply_updates) ==
  [a \in Assets |->
     IF /\ \E v \in GenesisValidators : a = DelegationToken(v)
        /\ supply_updates[a] = NoUpdate
     THEN 0 ELSE supply_updates[a]]

\* Worker::init_chain
init_chain(pb_opt, nct, st, app_state, checks) ==
  IF ~app_state.decodes THEN Result("panic", pb_opt, nct, st)
  ELSE
  LET st1 == commit_genesis(st, app_state)
      fresh == set_height(PendingBlockNew({}, st1.validators), 0,
                          app_state.epoch_duration)
      allocated == AccumulateAllocations(fresh.supply_updates,
                                         app_state.allocations, checks)
  IN
  IF IsNone(allocated) THEN Result("panic", pb_opt, {}, st1)
  ELSE
  LET with_denoms == RegisterDenoms(Unwrap(allocated))
      genesis_block ==
        add_notes([fresh EXCEPT !.supply_updates = with_denoms],
                  { GenesisCommitment(i) : i \in DOMAIN app_state.allocations })
  IN commit(Some(genesis_block), {}, st1)

\* The evidence loop of begin_block: [ok, pb].
RECURSIVE SlashAll(_, _, _)
SlashAll(pb, evidence, penalty) ==
  IF evidence = << >> THEN [ok |-> TRUE, pb |-> pb]
  ELSE LET slashed == slash_validator(pb, Head(evidence), penalty)
       IN IF IsNone(slashed) THEN [ok |-> FALSE, pb |-> pb]
          ELSE SlashAll(Unwrap(slashed), Tail(evidence), penalty)

\* begin_block without its assertion: a pending block in progress is replaced.
begin_block_replacing(pb_opt, nct, st, evidence) ==
  LET r == SlashAll(PendingBlockNew(nct, st.validators), evidence,
                    st.chain_params.slashing_penalty)
  IN Result(IF r.ok THEN "ok" ELSE "err", Some(r.pb), nct, st)

\* begin_block starting the block's accumulator empty instead of from a
\* clone of the live one.
begin_block_empty_tree(pb_opt, nct, st, evidence) ==
  IF IsSome(pb_opt) THEN Result("panic", pb_opt, nct, st)
  ELSE LET r == SlashAll(PendingBlockNew({}, st.validators), evidence,
                         st.chain_params.slashing_penalty)
       IN Result(IF r.ok THEN "ok" ELSE "err", Some(r.pb), nct, st)

\* Worker::begin_block
begin_block(pb_opt, nct, st, evidence) ==
  IF IsSome(pb_opt) THEN Result("panic", pb_opt, nct, st)
  ELSE LET r == SlashAll(PendingBlockNew(nct, st.validators), evidence,
                         st.chain_params.slashing_penalty)
       IN Result(IF r.ok THEN "ok" ELSE "err", Some(r.pb), nct, st)

\* Reader::verify_stateful: the transaction's own checks against the chain
\* state, and none of its nullifiers spent in a committed block.
verify_stateful(st, tx) ==
  tx.stateful /\ tx.spent_nullifiers \cap st.nullifiers = {}

\* deliver_tx that reports a missing pending block as an Err.
deliver_tx_missing_is_err(pb_opt, nct, st, tx, checks) ==
  IF ~tx.decodes \/ ~tx.stateless \/ ~verify_stateful(st, tx)
  THEN Result("err", pb_opt, nct, st)
  ELSE IF IsNone(pb_opt) THEN Result("err", pb_opt, nct, st)
  ELSE IF Unwrap(pb_opt).spent_nullifiers \cap tx.spent_nullifiers /= {}
  THEN Result("err", pb_opt, nct, st)
  ELSE LET added == add_transaction(Unwrap(pb_opt), tx, checks)
       IN IF IsNone(added) THEN Result("panic", pb_opt, nct, st)
          ELSE Result("ok", added, nct, st)

\* deliver_tx that stages the transaction before it looks for conflicts.
deliver_tx_stages_first(pb_opt, nct, st, tx, checks) ==
  IF ~tx.decodes \/ ~tx.stateless \/ ~verify_stateful(st, tx)
  THEN Result("err", pb_opt, nct, st)
  ELSE IF IsNone(pb_opt) THEN Result("panic", pb_opt, nct, st)
  ELSE LET added == add_transaction(Unwrap(pb_opt), tx, checks)
       IN IF IsNone(added) THEN Result("panic", pb_opt, nct, st)
          ELSE IF Unwrap(pb_opt).spent_nullifiers \cap tx.spent_nullifiers /= {}
          THEN Result("err", added, nct, st)
          ELSE Result("ok", added, nct, st)

\* deliver_tx without the nullifier-conflict check.
deliver_tx_no_conflict_check(pb_opt, nct, st, tx, checks) ==
  IF ~tx.decodes \/ ~tx.stateless \/ ~verify_stateful(st, tx)
  THEN Result("err", pb_opt, nct, st)
  ELSE IF IsNone(pb_opt) THEN Result("panic", pb_opt, nct, st)
  ELSE LET added == add_transaction(Unwrap(pb_opt), tx, checks)
       IN IF IsNone(added) THEN Result("panic", pb_opt, nct, st)
          ELSE Result("ok", added, nct, st)

\* deliver_tx appending the outputs to the live accumulator as well.
deliver_tx_into_live_tree(pb_opt, nct, st, tx, checks) ==
  IF ~tx.decodes \/ ~tx.stateless \/ ~verify_stateful(st, tx)
  THEN Result("err", pb_opt, nct, st)
  ELSE IF IsNone(pb_opt) THEN Result("panic", pb_opt, nct, st)
  ELSE IF Unwrap(pb_opt).spent_nullifiers \cap tx.spent_nullifiers /= {}
  THEN Result("err", pb_opt, nct, st)
  ELSE LET added == add_transaction(Unwrap(pb_opt), tx, checks)
       IN IF IsNone(added) THEN Result("panic", pb_opt, nct, st)
          ELSE Result("ok", added, nct \cup tx.outputs, st)

\* Worker::deliver_tx
deliver_tx(pb_opt, nct, st, tx, checks) ==
  IF ~tx.decodes \/ ~tx.stateless \/ ~verify_stateful(st, tx)
  THEN Result("err", pb_opt, nct, st)
  ELSE IF IsNone(pb_opt) THEN Result("panic", pb_opt, nct, st)
  ELSE IF Unwrap(pb_opt).spent_nullifiers \cap tx.spent_nullifiers /= {}
  THEN Result("err", pb_opt, nct, st)
  ELSE LET added == add_transaction(Unwrap(pb_opt), tx, checks)
       IN IF IsNone(added) THEN Result("panic", pb_opt, nct, st)
          ELSE Result("ok", added, nct, st)

\* end_block running end_epoch in every block.
end_block_iterating_every_block(pb_opt, nct, st, height, checks, order) ==
  IF IsNone(pb_opt) THEN Result("panic", pb_opt, nct, st)
  ELSE
  LET epoch_duration == st.chain_params.epoch_duration
      with_height == set_height(Unwrap(pb_opt), height, epoch_duration)
      reverted ==
        [with_height EXCEPT
           !.reverting_notes = @ \cup
              quarantined(st.quarantined_notes, None, with_height.slashed_validators),
           !.reverting_nullifiers = @ \cup
              quarantined(st.quarantined_nullifiers, None,
                          with_height.slashed_validators)]
      r == end_epoch_iterating(reverted, st, checks, order)
  IN Result(IF r.ok THEN "ok" ELSE "panic", Some(r.pb), nct, st)

\* Worker::end_block, with the iteration order its end_epoch merges in.
end_block_iterating(pb_opt, nct, st, height, checks, order) ==
  IF IsNone(pb_opt) THEN Result("panic", pb_opt, nct, st)
  ELSE
  LET epoch_duration == st.chain_params.epoch_duration
      with_height == set_height(Unwrap(pb_opt), height, epoch_duration)
      epoch == Unwrap(with_height.epoch)
      reverted ==
        [with_height EXCEPT
           !.reverting_notes = @ \cup
              quarantined(st.quarantined_notes, None, with_height.slashed_validators),
           !.reverting_nullifiers = @ \cup
              quarantined(st.quarantined_nullifiers, None,
                          with_height.slashed_validators)]
  IN IF EpochEndHeight(epoch, epoch_duration) = height
     THEN LET r == end_epoch_iterating(reverted, st, checks, order)
          IN Result(IF r.ok THEN "ok" ELSE "panic", Some(r.pb), nct, st)
     ELSE Result("ok", Some(reverted), nct, st)

\* Worker::end_block
end_block(pb_opt, nct, st, height, checks) ==
  end_block_iterating(pb_opt, nct, st, height, checks, KeyOrder)

\* ------------------------------------------------- Worker::run
\* What the dispatch loop does with a handler's result: `.expect(..)` turns
\* Err into a panic for every handler but deliver_tx, whose Err becomes a
\* response with code 1.  A panic ends the worker without a response.
\* `.expect(..)` that lets a handler's Err through and stops on a panic only.
Fatal_panic_only(type, r) == r.outcome = "panic"

Fatal(type, r) ==
  \/ r.outcome = "panic"
  \/ (r.outcome = "err" /\ type /= "DeliverTx")

Response(type, r) ==
  IF Fatal(type, r) THEN NoRsp
  ELSE Rsp(type, IF r.outcome = "err" THEN 1 ELSE 0)

Dispatch(type, r) ==
  /\ req' = type
  /\ pending_block' = r.pending_block
  /\ note_commitment_tree' = r.note_commitment_tree
  /\ state' = r.state
  /\ status' = IF Fatal(type, r) THEN "halted" ELSE "running"
  /\ rsp' = Response(type, r)
  /\ UNCHANGED << overflow_checks, rank_input, rank_output >>

\* Worker::new over a store on which no chain was started.
Init ==
  /\ state = EmptyStore
  /\ pending_block = None
  /\ note_commitment_tree = EmptyStore.note_commitment_tree
  /\ status = "running"
  /\ req = "None"
  /\ rsp = NoRsp
  /\ delivered = {}
  /\ slashed_rate = [v \in Validators |-> None]
  /\ overflow_checks \in BOOLEAN
  /\ rank_input = None
  /\ rank_output = None
  /\ replica = None
  /\ channel = None

\* The engine sends InitChain once, to start the chain, and the other
\* requests afterwards.
InitChainStep(g) ==
  /\ status = "running"
  /\ ~state.initialized
  /\ Dispatch("InitChain",
              init_chain(pending_block, note_commitment_tree, state, g,
                         overflow_checks))
  /\ delivered' = {}
  /\ UNCHANGED slashed_rate

InitChain(g) == InitChainStep(g)
  /\ UNCHANGED << replica, channel >>

BeginBlockStep(evidence) ==
  /\ status = "running"
  /\ state.initialized
  /\ state.height < MaxHeight
  /\ LET r == begin_block(pending_block, note_commitment_tree, state, evidence)
     IN /\ Dispatch("BeginBlock", r)
        /\ delivered' = IF r.outcome = "panic" THEN delivered ELSE {}
        /\ slashed_rate' = IF r.outcome /= "ok" THEN slashed_rate
                       ELSE LET pb == Unwrap(r.pending_block)
                            IN [v \in Validators |->
                                  IF v \in pb.slashed_validators
                                  THEN Some(pb.validator_state_machine[v].rate_data.rate)
                                  ELSE slashed_rate[v]]

BeginBlock(evidence) == BeginBlockStep(evidence)
  /\ UNCHANGED << replica, channel >>

DeliverTxStep(t) ==
  /\ status = "running"
  /\ state.initialized
  /\ LET r == deliver_tx(pending_block, note_commitment_tree, state, TxPool[t],
                         overflow_checks)
     IN /\ Dispatch("DeliverTx", r)
        /\ delivered' = IF r.outcome = "ok" THEN delivered \cup {t}
                        ELSE delivered
        /\ UNCHANGED slashed_rate

DeliverTx(t) == DeliverTxStep(t)
  /\ UNCHANGED << replica, channel >>

\* The engine sends one EndBlock per block, with the height of the block.
EndBlockStep ==
  /\ status = "running"
  /\ state.initialized
  /\ IF IsSome(pending_block) THEN IsNone(Unwrap(pending_block).height) ELSE TRUE
  /\ Dispatch("EndBlock",
              end_block(pending_block, note_commitment_tree, state,
                        state.height + 1, overflow_checks))
  /\ UNCHANGED << delivered, slashed_rate >>

EndBlock == EndBlockStep
  /\ UNCHANGED << replica, channel >>

CommitStep ==
  /\ status = "running"
  /\ state.initialized
  /\ LET r == commit(pending_block, note_commitment_tree, state)
     IN /\ Dispatch("Commit", r)
        /\ delivered' = IF r.outcome = "panic" THEN delivered ELSE {}
        /\ UNCHANGED slashed_rate

Commit == CommitStep
  /\ UNCHANGED << replica, channel >>

Next ==
  \/ \E g \in GenesisPool : InitChain(g)
  \/ \E evidence \in EvidencePool : BeginBlock(evidence)
  \/ \E t \in Txs : DeliverTx(t)
  \/ EndBlock
  \/ Commit

Spec == Init /\ [][Next]_vars

\* ------------------------------------------------- the epoch-closing block
\* Worker::new over a store that holds a chain whose next block closes an
\* epoch: the validators are in any state, each with a small
\* delegation-token supply and a small delegation change persisted for the
\* closing epoch.  An Inactive or Slashed validator carries the voting power
\* of its status; Unbonding validators are due at the boundary or after it.
ValidatorStates ==
  { << "Active", 0 >>, << "Inactive", 0 >>, << "Slashed", 0 >>,
    << "Unbonding", MaxHeight + 1 >>, << "Unbonding", MaxHeight + 2 >> }

\* << delegation-token supply, persisted delegation change >>
Stakes == { << 0, 0 >>, << 1, 0 >>, << 2, 1 >> }

EpochStore(vstate, stake, params) ==
  [EmptyStore EXCEPT
     !.initialized = TRUE,
     !.height = MaxHeight - 1,
     !.chain_params = params,
     !.validators = [v \in GenesisValidators |->
                       [state |-> vstate[v][1], unbonding_epoch |-> vstate[v][2],
                        voting_power |-> stake[v][1],
                        rate_data |->
                          IF vstate[v][1] = "Slashed"
                          THEN RateSlash([epoch_index |-> MaxHeight + 1,
                                          rate |-> RateUnit], SLASHING_PENALTY)
                          ELSE [epoch_index |-> MaxHeight + 1, rate |-> RateUnit]]],
     !.funding_streams = [v \in GenesisValidators |-> GenesisFundingStreams(v)],
     !.base_rate = [epoch_index |-> MaxHeight + 1, rate |-> RateUnit,
                    reward |-> BASE_REWARD_RATE],
     !.supply = [a \in Assets |->
                   IF a = STAKING_TOKEN_ASSET_ID THEN I64Max
                   ELSE IF a \in GenesisValidators THEN stake[a][1]
                   ELSE NoUpdate],
     !.delegation_changes[MaxHeight] =
        [v \in Validators |-> IF v \in GenesisValidators THEN stake[v][2] ELSE 0]]

InitEpoch ==
  /\ \E vstate \in [GenesisValidators -> ValidatorStates],
        stake \in [GenesisValidators -> Stakes],
        limit \in 0..NumValidators, unbonding \in {0, 1} :
       state = EpochStore(vstate, stake,
                          [epoch_duration |-> 1, unbonding_epochs |-> unbonding,
                           validator_limit |-> limit,
                           slashing_penalty |-> SLASHING_PENALTY])
  /\ pending_block = None
  /\ note_commitment_tree = EmptyStore.note_commitment_tree
  /\ status = "running"
  /\ req = "None"
  /\ rsp = NoRsp
  /\ delivered = {}
  /\ slashed_rate = [v \in Validators |->
                  IF v \in DOMAIN state.validators
                     /\ state.validators[v].state = "Slashed"
                  THEN Some(state.validators[v].rate_data.rate) ELSE None]
  /\ overflow_checks \in BOOLEAN
  /\ rank_input = None
  /\ rank_output = None
  /\ replica = None
  /\ channel = None

NextEpoch ==
  \/ BeginBlock(<< >>)
  \/ EndBlock
  \/ Commit

SpecEpoch == InitEpoch /\ [][NextEpoch]_vars

\* ------------------------------------------------- two replicas
\* Two workers of one build, each created by Worker::new over its own empty
\* store, are sent the same requests by the engine.  `replica` holds the
\* fields of the second worker; where the code leaves an iteration order
\* open (the delegation_changes merge of end_epoch) the second worker
\* iterates in an order of its own.
Follow(type, r) ==
  Some([state |-> r.state, pending_block |-> r.pending_block,
        note_commitment_tree |-> r.note_commitment_tree,
        status |-> IF Fatal(type, r) THEN "halted" ELSE "running",
        rsp |-> Response(type, r)])

InitReplicas ==
  /\ state = EmptyStore
  /\ pending_block = None
  /\ note_commitment_tree = EmptyStore.note_commitment_tree
  /\ status = "running"
  /\ req = "None"
  /\ rsp = NoRsp
  /\ delivered = {}
  /\ slashed_rate = [v \in Validators |-> None]
  /\ overflow_checks \in BOOLEAN
  /\ rank_input = None
  /\ rank_output = None
  /\ replica = Some([state |-> EmptyStore, pending_block |-> None,
                     note_commitment_tree |-> EmptyStore.note_commitment_tree,
                     status |-> "running", rsp |-> NoRsp])
  /\ channel = None

\* A request reaches the second worker only while it runs.
ReplicaRuns == IsSome(replica) /\ Unwrap(replica).status = "running"

PairInitChain(g) ==
  /\ InitChainStep(g)
  /\ UNCHANGED channel
  /\ ReplicaRuns
  /\ LET w == Unwrap(replica)
     IN replica' = Follow("InitChain",
                          init_chain(w.pending_block, w.note_commitment_tree,
                                     w.state, g, overflow_checks))

PairBeginBlock(evidence) ==
  /\ BeginBlockStep(evidence)
  /\ UNCHANGED channel
  /\ ReplicaRuns
  /\ LET w == Unwrap(replica)
     IN replica' = Follow("BeginBlock",
                          begin_block(w.pending_block, w.note_commitment_tree,
                                      w.state, evidence))

PairDeliverTx(t) ==
  /\ DeliverTxStep(t)
  /\ UNCHANGED channel
  /\ ReplicaRuns
  /\ LET w == Unwrap(replica)
     IN replica' = Follow("DeliverTx",
                          deliver_tx(w.pending_block, w.note_commitment_tree,
                                     w.state, TxPool[t], overflow_checks))

PairEndBlock ==
  /\ EndBlockStep
  /\ UNCHANGED channel
  /\ ReplicaRuns
  /\ \E order \in IterationOrders(Unwrap(replica).pending_block) :
       LET w == Unwrap(replica)
       IN replica' = Follow("EndBlock",
                            end_block_iterating(w.pending_block,
                                                w.note_commitment_tree, w.state,
                                                w.state.height + 1,
                                                overflow_checks, order))

PairCommit ==
  /\ CommitStep
  /\ UNCHANGED channel
  /\ ReplicaRuns
  /\ LET w == Unwrap(replica)
     IN replica' = Follow("Commit",
                          commit(w.pending_block, w.note_commitment_tree,
                                 w.state))

NextReplicas ==
  \/ \E g \in GenesisPool : PairInitChain(g)
  \/ \E evidence \in EvidencePool : PairBeginBlock(evidence)
  \/ \E t \in Txs : PairDeliverTx(t)
  \/ PairEndBlock
  \/ PairCommit

SpecReplicas == InitReplicas /\ [][NextReplicas]_vars

\* ------------------------------------------------- the request queue
\* Worker::run step by step: the engine sends messages into the queue, each
\* with a response slot of its own; the loop receives one message, awaits
\* its handler, hands the response to the slot, and receives the next.
\* A message is named by its arrival number.
InitChainRequest(g) ==
  [type |-> "InitChain", genesis |-> g, evidence |-> << >>, tx |-> 0]
BeginBlockRequest(evidence) ==
  [type |-> "BeginBlock", genesis |-> AppState(FALSE, 1, 1, 0, 1),
   evidence |-> evidence, tx |-> 0]
DeliverTxRequest(t) ==
  [type |-> "DeliverTx", genesis |-> AppState(FALSE, 1, 1, 0, 1),
   evidence |-> << >>, tx |-> t]
EndBlockRequest ==
  [type |-> "EndBlock", genesis |-> AppState(FALSE, 1, 1, 0, 1),
   evidence |-> << >>, tx |-> 0]
CommitRequest ==
  [type |-> "Commit", genesis |-> AppState(FALSE, 1, 1, 0, 1),
   evidence |-> << >>, tx |-> 0]

\* The request sequences of the engine: a block with an accepted and a
\* rejected transaction; evidence against an unknown validator (begin_block
\* returns Err); a genesis that does not decode (init_chain fails); Commit
\* without a block (commit panics); a delegation whose size leaves i64
\* (end_block fails in a build with overflow checks); DeliverTx without a
\* block (deliver_tx panics).
Scripts ==
  { << InitChainRequest(AppState(TRUE, 1, 0, 1, 2)), BeginBlockRequest(<< >>),
       DeliverTxRequest(4), DeliverTxRequest(1), EndBlockRequest,
       CommitRequest >>,
    << InitChainRequest(AppState(TRUE, 1, 0, 1, 2)),
       BeginBlockRequest(<< UnknownKey >>), DeliverTxRequest(4),
       EndBlockRequest, CommitRequest >>,
    << InitChainRequest(AppState(FALSE, 1, 1, 0, 2)), BeginBlockRequest(<< >>) >>,
    << InitChainRequest(AppState(TRUE, 1, 0, 1, 2)), CommitRequest,
       BeginBlockRequest(<< >>) >>,
    << InitChainRequest(AppState(TRUE, 1, 0, 1, 2)), BeginBlockRequest(<< >>),
       DeliverTxRequest(6), EndBlockRequest, CommitRequest >>,
    << InitChainRequest(AppState(TRUE, 1, 0, 1, 2)), DeliverTxRequest(4),
       BeginBlockRequest(<< >>) >> }

\* A response slot whose receiving end the engine dropped.
Dropped == [type |-> "Dropped", code |-> 0]

\* mpsc::Receiver::recv taking the message that arrived last.
NextMessage_newest(queue) == queue[Len(queue)]

\* mpsc::Receiver::recv: the buffered message that arrived first.
NextMessage(queue) == Head(queue)

\* The outcome of the handler of message m run on the worker's fields.
HandlerOutcome(m) ==
  CASE m.type = "InitChain" ->
         init_chain(pending_block, note_commitment_tree, state, m.genesis,
                    overflow_checks).outcome
    [] m.type = "BeginBlock" ->
         begin_block(pending_block, note_commitment_tree, state,
                     m.evidence).outcome
    [] m.type = "DeliverTx" ->
         deliver_tx(pending_block, note_commitment_tree, state, TxPool[m.tx],
                    overflow_checks).outcome
    [] m.type = "EndBlock" ->
         end_block(pending_block, note_commitment_tree, state,
                   state.height + 1, overflow_checks).outcome
    [] OTHER -> commit(pending_block, note_commitment_tree, state).outcome

worker_vars == << state, pending_block, note_commitment_tree, status, req, rsp,
                  delivered, slashed_rate, overflow_checks, rank_input,
                  rank_output, replica >>

InitQueue ==
  /\ state = EmptyStore
  /\ pending_block = None
  /\ note_commitment_tree = EmptyStore.note_commitment_tree
  /\ status = "running"
  /\ req = "None"
  /\ rsp = NoRsp
  /\ delivered = {}
  /\ slashed_rate = [v \in Validators |-> None]
  /\ overflow_checks \in BOOLEAN
  /\ rank_input = None
  /\ rank_output = None
  /\ replica = None
  /\ \E script \in Scripts :
       channel = Some([script |-> script, sent |-> 0, closed |-> FALSE,
                       queue |-> << >>, pc |-> "recv", current |-> 0,
                       handled |-> << >>, answered |-> << >>,
                       slots |-> [k \in 1..Len(script) |-> NoRsp],
                       failed |-> {}])

\* The engine sends its next request, with a fresh response slot.
Send ==
  /\ IsSome(channel)
  /\ LET c == Unwrap(channel)
     IN /\ ~c.closed /\ c.pc \notin {"halted", "returned"}
        /\ c.sent < Len(c.script)
        /\ channel' = Some([c EXCEPT !.sent = @ + 1,
                                      !.queue = Append(@, c.sent + 1)])
  /\ UNCHANGED worker_vars

\* The engine drops the sending end of the queue.
Close ==
  /\ IsSome(channel)
  /\ ~Unwrap(channel).closed
  /\ channel' = Some([Unwrap(channel) EXCEPT !.closed = TRUE])
  /\ UNCHANGED worker_vars

\* The engine stops waiting for one response: it drops the receiving end of
\* the slot of a request it sent (lines 47-49).
DropSlot ==
  /\ IsSome(channel)
  /\ LET c == Unwrap(channel)
     IN /\ \A k \in DOMAIN c.slots : c.slots[k] /= Dropped
        /\ \E k \in 1..c.sent :
             /\ c.slots[k] = NoRsp
             /\ channel' = Some([c EXCEPT !.slots[k] = Dropped])
  /\ UNCHANGED worker_vars

\* `self.queue.recv().await` (lines 41-46): the next buffered message; once
\* the queue is closed and drained the loop ends and run returns Ok(()).
Recv ==
  /\ IsSome(channel)
  /\ LET c == Unwrap(channel)
     IN /\ c.pc = "recv"
        /\ IF c.queue /= << >>
           THEN LET k == NextMessage(c.queue)
                IN channel' =
                     Some([c EXCEPT !.pc = "handle", !.current = k,
                                    !.queue = SelectSeq(@, LAMBDA j : j /= k),
                                    !.handled = Append(@, k)])
           ELSE /\ c.closed
                /\ channel' = Some([c EXCEPT !.pc = "returned"])
  /\ UNCHANGED worker_vars

\* The bookkeeping of the loop once the handler of the message in progress
\* ran: a panic ends the task, otherwise the response is ready to be sent.
Handled(c, m) ==
  channel' =
    Some([c EXCEPT
            !.pc = IF status' = "halted" THEN "halted" ELSE "send",
            !.failed = IF m.type /= "DeliverTx" /\ HandlerOutcome(m) /= "ok"
                       THEN @ \cup {c.current} ELSE @])

\* Whether the loop is about to run the handler of a message of this type.
Handling(type) ==
  /\ IsSome(channel)
  /\ Unwrap(channel).pc = "handle"
  /\ Unwrap(channel).script[Unwrap(channel).current].type = type

HandleInitChain ==
  /\ Handling("InitChain")
  /\ LET c == Unwrap(channel)
     IN /\ InitChainStep(c.script[c.current].genesis)
        /\ Handled(c, c.script[c.current])
  /\ UNCHANGED replica

HandleBeginBlock ==
  /\ Handling("BeginBlock")
  /\ LET c == Unwrap(channel)
     IN /\ BeginBlockStep(c.script[c.current].evidence)
        /\ Handled(c, c.script[c.current])
  /\ UNCHANGED replica

HandleDeliverTx ==
  /\ Handling("DeliverTx")
  /\ LET c == Unwrap(channel)
     IN /\ DeliverTxStep(c.script[c.current].tx)
        /\ Handled(c, c.script[c.current])
  /\ UNCHANGED replica

HandleEndBlock ==
  /\ Handling("EndBlock")
  /\ LET c == Unwrap(channel)
     IN /\ EndBlockStep
        /\ Handled(c, c.script[c.current])
  /\ UNCHANGED replica

HandleCommit ==
  /\ Handling("Commit")
  /\ LET c == Unwrap(channel)
     IN /\ CommitStep
        /\ Handled(c, c.script[c.current])
  /\ UNCHANGED replica

\* `let _ = rsp_sender.send(..)` (line 50): the response goes to the slot of
\* the message in progress; a send to a dropped slot fails and is ignored.
Respond ==
  /\ IsSome(channel)
  /\ LET c == Unwrap(channel)
     IN /\ c.pc = "send"
        /\ channel' =
             Some([c EXCEPT !.pc = "recv",
                            !.answered = Append(@, c.current),
                            !.slots[c.current] =
                               IF @ = Dropped THEN @ ELSE rsp])
  /\ UNCHANGED worker_vars

WorkerNext ==
  \/ Recv
  \/ HandleInitChain
  \/ HandleBeginBlock
  \/ HandleDeliverTx
  \/ HandleEndBlock
  \/ HandleCommit
  \/ Respond

NextQueue ==
  \/ Send
  \/ Close
  \/ DropSlot
  \/ WorkerNext

SpecQueue == InitQueue /\ [][NextQueue]_vars

\* ------------------------------------------------- the ranking alone
\* The ranking of lines 560-565 applied to a list of statuses in any order:
\* worker.rs takes the order of next_validator_statuses from the iteration
\* of the validator table and imposes none of its own.
RankPowers == {0, 1, 2}

StatusLists ==
  { [i \in 1..Cardinality(Validators) |->
       [identity_key |-> order[i], voting_power |-> power[order[i]],
        state |-> "Inactive", unbonding_epoch |-> 0]] :
      order \in { o \in [1..Cardinality(Validators) -> Validators] :
                    \A i, j \in DOMAIN o : i /= j => o[i] /= o[j] },
      power \in [Validators -> RankPowers] }

InitRank ==
  /\ state = EmptyStore
  /\ pending_block = None
  /\ note_commitment_tree = EmptyStore.note_commitment_tree
  /\ status = "running"
  /\ req = "None"
  /\ rsp = NoRsp
  /\ delivered = {}
  /\ slashed_rate = [v \in Validators |-> None]
  /\ overflow_checks = TRUE
  /\ rank_input \in { Some([statuses |-> statuses, validator_limit |-> limit]) :
                        statuses \in StatusLists,
                        limit \in 0..Cardinality(Validators) }
  /\ rank_output = None
  /\ replica = None
  /\ channel = None

Rank ==
  /\ IsSome(rank_input) /\ IsNone(rank_output)
  /\ rank_output' = Some(top_validators(Unwrap(rank_input).statuses,
                                        Unwrap(rank_input).validator_limit))
  /\ UNCHANGED << state, pending_block, note_commitment_tree, status, req, rsp,
                  delivered, slashed_rate, overflow_checks, rank_input,
                  replica, channel >>

SpecRank == InitRank /\ [][Rank]_vars

\* ------------------------------------------------- claims
RequiresPendingBlock == {"DeliverTx", "EndBlock", "Commit"}

\* Whether the transaction passes decoding, stateless and stateful
\* verification against the store.
Verifies(st, tx) == tx.decodes /\ tx.stateless /\ verify_stateful(st, tx)

\* C1: the pending block is absent after Worker::new, and over the requests
\* the worker survives it is present after a step exactly when the step was a
\* begin_block, or a deliver_tx or end_block that found it present: commit and
\* init_chain leave it absent.  A begin_block that finds a pending block halts
\* the worker and leaves that block in place.
C1_PendingBlockLifecycle ==
  /\ IsNone(pending_block)
  /\ [][ /\ status' = "running" =>
              (IsSome(pending_block') <=>
                 \/ req' = "BeginBlock"
                 \/ (IsSome(pending_block) /\ req' \in {"DeliverTx", "EndBlock"}))
         /\ (req' = "BeginBlock" /\ IsSome(pending_block)) =>
              (status' = "halted" /\ pending_block' = pending_block) ]_vars

\* C1 witness: a begin_block arrived while a block that had already been
\* through end_block was pending, and the worker halted with that block.
C1_Witness ==
  /\ status = "halted" /\ req = "BeginBlock"
  /\ IsSome(pending_block) /\ IsSome(Unwrap(pending_block).height)
  /\ state.height > 0

\* C2 as stated: with no pending block, every deliver_tx, end_block and
\* commit halts the worker, whatever the payload.
C2_MissingPendingBlockAlwaysFatal ==
  [][ (IsNone(pending_block) /\ req' \in RequiresPendingBlock) =>
        status' = "halted" ]_vars

\* C2 amended: with no pending block, end_block and commit halt the worker
\* with no response, and so does deliver_tx of a transaction that passes
\* decoding, stateless and stateful verification; deliver_tx of bytes that
\* fail one of the three is answered with code 1 and the worker runs on.  A
\* halted worker takes no further step.
C2_MissingPendingBlockFatal ==
  [][ /\ status = "running"
      /\ IsNone(pending_block) =>
           /\ req' \in {"EndBlock", "Commit"} =>
                (status' = "halted" /\ rsp' = NoRsp)
           /\ req' = "DeliverTx" => \A t \in Txs : DeliverTx(t) =>
                IF Verifies(state, TxPool[t])
                THEN status' = "halted" /\ rsp' = NoRsp
                ELSE /\ status' = "running"
                     /\ rsp' = Rsp("DeliverTx", 1)
                     /\ IsNone(pending_block') ]_vars

\* C2 witness: a deliver_tx found no pending block and halted the worker.
C2_Witness ==
  status = "halted" /\ req = "DeliverTx" /\ IsNone(pending_block)

\* C3: a deliver_tx that fails decoding, stateless or stateful verification,
\* or whose nullifiers meet the pending block's spent_nullifiers, is answered
\* with code 1, leaves the pending block (every field), the live accumulator
\* and the store as they were, and leaves the worker running.
Rejects(pb_opt, st, tx) ==
  \/ ~Verifies(st, tx)
  \/ (IsSome(pb_opt) /\ tx.spent_nullifiers \cap Unwrap(pb_opt).spent_nullifiers /= {})

C3_RejectedDeliveryLeavesNoTrace ==
  [][ req' = "DeliverTx" => \A t \in Txs :
        (Rejects(pending_block, state, TxPool[t]) /\ DeliverTx(t)) =>
          /\ rsp' = Rsp("DeliverTx", 1)
          /\ pending_block' = pending_block
          /\ note_commitment_tree' = note_commitment_tree
          /\ state' = state
          /\ status' = "running" ]_vars

\* C3 witness: a delivery was rejected while the pending block held spent
\* nullifiers and notes of accepted transactions.
C3_Witness ==
  /\ status = "running" /\ rsp = Rsp("DeliverTx", 1)
  /\ IsSome(pending_block)
  /\ Unwrap(pending_block).spent_nullifiers /= {}
  /\ Unwrap(pending_block).notes /= {}

\* C4: in a pending block no nullifier belongs to two accepted transactions,
\* and a transaction with nullifiers that was accepted into the block is
\* rejected with code 1 when delivered again.
C4_UniqueNullifiersPerBlock ==
  (status = "running" /\ IsSome(pending_block)) =>
    /\ \A t1, t2 \in delivered :
         t1 /= t2 => TxPool[t1].spent_nullifiers \cap TxPool[t2].spent_nullifiers = {}
    /\ \A t \in delivered :
         TxPool[t].spent_nullifiers /= {} =>
           Response("DeliverTx",
                    deliver_tx(pending_block, note_commitment_tree, state,
                               TxPool[t], overflow_checks))
             = Rsp("DeliverTx", 1)

\* C4 witness: two transactions with nullifiers were accepted into one block
\* and a later delivery was rejected.
C4_Witness ==
  /\ status = "running" /\ IsSome(pending_block)
  /\ Cardinality(delivered) = 2
  /\ \A t \in delivered : TxPool[t].spent_nullifiers /= {}
  /\ rsp = Rsp("DeliverTx", 1)

\* C5: whenever end_epoch has staged next_validator_statuses, the number of
\* staged statuses whose state is Active is at most validator_limit.
ActiveCount(statuses) ==
  Cardinality({ i \in DOMAIN statuses : statuses[i].state = "Active" })

C5_ValidatorLimitCap ==
  (IsSome(pending_block) /\ IsSome(Unwrap(pending_block).next_validator_statuses)) =>
    ActiveCount(Unwrap(Unwrap(pending_block).next_validator_statuses))
      <= state.chain_params.validator_limit

\* C5 witness: end_epoch staged the statuses of a block in which more
\* validators tied for the last slot than the limit admits: the limit is
\* reached, and an Active validator of the same voting power was displaced.
C5_Witness ==
  /\ status = "running" /\ req = "EndBlock" /\ IsSome(pending_block)
  /\ IsSome(Unwrap(pending_block).next_validator_statuses)
  /\ LET statuses == Unwrap(Unwrap(pending_block).next_validator_statuses)
         vsm == Unwrap(pending_block).validator_state_machine
     IN /\ state.chain_params.validator_limit >= 1
        /\ ActiveCount(statuses) = state.chain_params.validator_limit
        /\ \E i, j \in DOMAIN statuses :
             /\ statuses[i].state = "Active"
             /\ statuses[j].state /= "Active"
             /\ vsm[statuses[j].identity_key].state = "Active"
             /\ statuses[i].voting_power = statuses[j].voting_power

\* The staged status and rate of validator v in a pending block that
\* end_epoch has been through.
StagedStatus(pb, v) ==
  LET statuses == Unwrap(pb.next_validator_statuses)
  IN statuses[CHOOSE i \in DOMAIN statuses : statuses[i].identity_key = v]

StagedRate(pb, v) ==
  LET statuses == Unwrap(pb.next_validator_statuses)
  IN Unwrap(pb.next_rates)[CHOOSE i \in DOMAIN statuses :
                             statuses[i].identity_key = v]

Staged == IsSome(pending_block) /\ IsSome(Unwrap(pending_block).next_rates)

C7_RevertBeatsReveal ==
  (IsSome(pending_block) /\ IsSome(Unwrap(pending_block).height)) =>
    LET pb == Unwrap(pending_block)
    IN /\ \A e \in state.quarantined_notes :
            e.validator \in pb.slashed_validators =>
              (e.item \in pb.reverting_notes /\ e.item \notin pb.notes)
       /\ \A e \in state.quarantined_nullifiers :
            e.validator \in pb.slashed_validators =>
              /\ e.item \in pb.reverting_nullifiers
              /\ e.item \notin pb.unbonding_nullifiers

\* C7 witness: end_epoch has staged the tables of a block that slashed a
\* validator with a quarantined note and a quarantined nullifier whose
\* unbonding height the block has reached.
C7_Witness ==
  /\ Staged /\ status = "running" /\ req = "EndBlock"
  /\ LET pb == Unwrap(pending_block)
     IN /\ \E e \in state.quarantined_notes :
             e.validator \in pb.slashed_validators /\ e.height <= Unwrap(pb.height)
        /\ \E e \in state.quarantined_nullifiers :
             e.validator \in pb.slashed_validators /\ e.height <= Unwrap(pb.height)

\* The delegation change end_epoch merges for validator v: the persisted
\* change of the closing epoch plus the in-block delta.
MergedDelegationChange(pb, st, epoch, v) ==
  st.delegation_changes[epoch][v] + pb.delegation_changes[v]

\* sign(change) * unbonded(|change|), at the validator's current rate.
SignedUnbonded(pb, st, v) ==
  LET change == MergedDelegationChange(pb, st, Unwrap(pb.epoch), v)
      unbonded == (Abs(change) * pb.validator_state_machine[v].rate_data.rate)
                    \div RateUnit
  IN IF change > 0 THEN unbonded ELSE 0 - unbonded

RECURSIVE SumSignedUnbonded(_, _, _)
SumSignedUnbonded(pb, st, vs) ==
  IF vs = {} THEN 0
  ELSE LET v == CHOOSE x \in vs : TRUE
       IN SignedUnbonded(pb, st, v) + SumSignedUnbonded(pb, st, vs \ {v})

\* The state an end_block that ran end_epoch to its end leaves behind.
EpochStaged == Staged /\ status = "running" /\ req = "EndBlock"

\* C8: after end_epoch the staking-token supply staged in supply_updates is
\* the committed staking supply minus the sum, over all validators of the
\* block, of sign(change) * unbonded(|change|) of their merged delegation
\* changes.
C8_StakingSupplyConservation ==
  EpochStaged =>
    LET pb == Unwrap(pending_block)
    IN pb.supply_updates[STAKING_TOKEN_ASSET_ID]
         = state.supply[STAKING_TOKEN_ASSET_ID]
             - SumSignedUnbonded(pb, state, DOMAIN pb.validator_state_machine)

\* The supply of an asset as the block would commit it: the staged update,
\* or the committed supply when none is staged.
SupplyAfter(pb, st, asset) ==
  IF pb.supply_updates[asset] /= NoUpdate THEN pb.supply_updates[asset]
  ELSE IF st.supply[asset] /= NoUpdate THEN st.supply[asset]
  ELSE 0

\* C9: after end_epoch the delegation-token supply of every validator, in
\* any state, is its committed supply plus its merged delegation change.
C9_DelegationSupplyAccounting ==
  EpochStaged =>
    LET pb == Unwrap(pending_block)
    IN \A v \in DOMAIN pb.validator_state_machine :
         SupplyAfter(pb, state, DelegationToken(v))
           = (IF state.supply[DelegationToken(v)] /= NoUpdate
              THEN state.supply[DelegationToken(v)] ELSE 0)
             + MergedDelegationChange(pb, state, Unwrap(pb.epoch), v)

\* Whether the next block of the chain closes an epoch.
ClosesEpoch(st) ==
  LET height == st.height + 1
      epoch_duration == st.chain_params.epoch_duration
  IN EpochEndHeight(EpochIndex(height, epoch_duration), epoch_duration) = height

\* Whether the supply computations of the per-validator loop, carried out
\* over the integers from the given staking supply, leave their range at
\* some validator: |change| outside i64, the unbonded amount or a sum above
\* the u64 maximum, or a difference below 0.
RECURSIVE SupplyFault(_, _, _, _, _)
SupplyFault(order, staking, pb, st, epoch) ==
  IF order = << >> THEN FALSE
  ELSE
  LET v == Head(order)
      info == pb.validator_state_machine[v]
      change == MergedDelegationChange(pb, st, epoch, v)
      unbonded == (Abs(change) * info.rate_data.rate) \div RateUnit
      supply == IF st.supply[DelegationToken(v)] = NoUpdate THEN 0
                ELSE st.supply[DelegationToken(v)]
      staking_after == IF change > 0 THEN staking - unbonded ELSE staking + unbonded
      supply_after == supply + change
  IN IF HoldsRate(info.state) THEN SupplyFault(Tail(order), staking, pb, st, epoch)
     ELSE \/ ~InI64(Abs(change))
          \/ unbonded > U64Max
          \/ staking_after \notin U64
          \/ supply_after \notin U64
          \/ SupplyFault(Tail(order), staking_after, pb, st, epoch)

\* C10: an end_block that runs end_epoch over a block in which a supply
\* computation leaves its integer range halts the worker, and leaves
\* next_rates, next_base_rate, next_validator_statuses and the staking supply
\* of the pending block unwritten.
C10_ArithmeticFaultsFatal ==
  [][ ( /\ req' = "EndBlock" /\ status = "running"
        /\ IsSome(pending_block) /\ ClosesEpoch(state)
        /\ state.supply[STAKING_TOKEN_ASSET_ID] /= NoUpdate
        /\ LET pb == Unwrap(pending_block)
               epoch == EpochIndex(state.height + 1, state.chain_params.epoch_duration)
           IN /\ \A v \in Validators :
                   InI64(MergedDelegationChange(pb, state, epoch, v))
              /\ SupplyFault(validators_info(pb.validator_state_machine),
                             state.supply[STAKING_TOKEN_ASSET_ID], pb, state, epoch) )
      => /\ status' = "halted"
         /\ IsSome(pending_block')
         /\ IsNone(Unwrap(pending_block').next_rates)
         /\ IsNone(Unwrap(pending_block').next_base_rate)
         /\ IsNone(Unwrap(pending_block').next_validator_statuses)
         /\ Unwrap(pending_block').supply_updates[STAKING_TOKEN_ASSET_ID]
              = Unwrap(pending_block).supply_updates[STAKING_TOKEN_ASSET_ID] ]_vars

\* Whether status a ranks before status b: voting power descending, ties by
\* identity key ascending.
RanksBefore(a, b) ==
  \/ a.voting_power > b.voting_power
  \/ (a.voting_power = b.voting_power /\ a.identity_key < b.identity_key)

\* The first validator_limit identity keys of that order.
FirstByRank(statuses, validator_limit) ==
  { statuses[i].identity_key : i \in
      { i \in DOMAIN statuses :
          Cardinality({ j \in DOMAIN statuses :
                          RanksBefore(statuses[j], statuses[i]) }) < validator_limit } }

\* C11: whatever the order of the status list, the top validators the ranking
\* selects are the first validator_limit statuses by voting power
\* descending, ties broken by identity key ascending.
C11_RankingOrder ==
  IsSome(rank_output) =>
    Unwrap(rank_output) = FirstByRank(Unwrap(rank_input).statuses,
                                      Unwrap(rank_input).validator_limit)

\* The epoch whose statuses end_epoch stages, the validators it ranked on
\* top, and the status the per-validator loop staged before the rotation.
CurrentEpoch(pb) == Unwrap(pb.epoch) + 1

StagedTop(pb, st) ==
  top_validators(Unwrap(pb.next_validator_statuses), st.chain_params.validator_limit)

ExpiredUnbonding(pb, v) ==
  /\ pb.validator_state_machine[v].state = "Unbonding"
  /\ pb.validator_state_machine[v].unbonding_epoch <= CurrentEpoch(pb)

\* C12 as stated: after end_epoch every validator the loop staged as
\* Unbonding{u} with u <= current_epoch is Inactive in
\* next_validator_statuses, in the top validator_limit or not.
C12_UnbondingExpiryAlways ==
  EpochStaged =>
    LET pb == Unwrap(pending_block)
    IN \A v \in DOMAIN pb.validator_state_machine :
         ExpiredUnbonding(pb, v) => StagedStatus(pb, v).state = "Inactive"

\* C12 amended: after end_epoch a validator the loop staged as Unbonding{u}
\* with u <= current_epoch is Inactive in next_validator_statuses when it is
\* outside the top validator_limit, and Active when it is within.
C12_UnbondingExpiry ==
  EpochStaged =>
    LET pb == Unwrap(pending_block)
    IN \A v \in DOMAIN pb.validator_state_machine :
         ExpiredUnbonding(pb, v) =>
           StagedStatus(pb, v).state =
             IF v \in StagedTop(pb, state) THEN "Active" ELSE "Inactive"

\* C12 witness: of two validators whose unbonding has expired, end_epoch
\* staged the one within the top as Active and the one outside as Inactive.
C12_Witness ==
  /\ EpochStaged
  /\ LET pb == Unwrap(pending_block)
     IN \E v, w \in DOMAIN pb.validator_state_machine :
          /\ ExpiredUnbonding(pb, v) /\ ExpiredUnbonding(pb, w)
          /\ v \in StagedTop(pb, state) /\ w \notin StagedTop(pb, state)
          /\ StagedStatus(pb, v).state = "Active"
          /\ StagedStatus(pb, w).state = "Inactive"

\* C13 as stated: after end_epoch an Active validator outside the top
\* validator_limit is Unbonding{current_epoch + unbonding_epochs} in
\* next_validator_statuses for every unbonding_epochs >= 0, and an Active
\* validator within the top is Active.
C13_DisplacementAlwaysUnbonding ==
  EpochStaged =>
    LET pb == Unwrap(pending_block)
    IN \A v \in DOMAIN pb.validator_state_machine :
         pb.validator_state_machine[v].state = "Active" =>
           IF v \in StagedTop(pb, state)
           THEN StagedStatus(pb, v).state = "Active"
           ELSE /\ StagedStatus(pb, v).state = "Unbonding"
                /\ StagedStatus(pb, v).unbonding_epoch
                     = CurrentEpoch(pb) + state.chain_params.unbonding_epochs

\* C13 amended: after end_epoch an Active validator within the top
\* validator_limit is Active in next_validator_statuses; one outside the top
\* is Unbonding{current_epoch + unbonding_epochs} when unbonding_epochs >= 1,
\* and Inactive when unbonding_epochs = 0.
C13_Displacement ==
  EpochStaged =>
    LET pb == Unwrap(pending_block)
        unbonding_epochs == state.chain_params.unbonding_epochs
    IN \A v \in DOMAIN pb.validator_state_machine :
         pb.validator_state_machine[v].state = "Active" =>
           IF v \in StagedTop(pb, state)
           THEN StagedStatus(pb, v).state = "Active"
           ELSE IF unbonding_epochs >= 1
           THEN /\ StagedStatus(pb, v).state = "Unbonding"
                /\ StagedStatus(pb, v).unbonding_epoch
                     = CurrentEpoch(pb) + unbonding_epochs
           ELSE StagedStatus(pb, v).state = "Inactive"

\* C13 witness: with unbonding_epochs = 0, end_epoch kept one Active
\* validator within the top and staged another, outside it, as Inactive.
C13_Witness ==
  /\ EpochStaged
  /\ state.chain_params.unbonding_epochs = 0
  /\ LET pb == Unwrap(pending_block)
     IN \E v, w \in DOMAIN pb.validator_state_machine :
          /\ pb.validator_state_machine[v].state = "Active"
          /\ pb.validator_state_machine[w].state = "Active"
          /\ v \in StagedTop(pb, state) /\ w \notin StagedTop(pb, state)
          /\ StagedStatus(pb, v).state = "Active"
          /\ StagedStatus(pb, w).state = "Inactive"

AwaitsEndBlock ==
  /\ status = "running" /\ state.initialized
  /\ IsSome(pending_block) /\ IsNone(Unwrap(pending_block).height)

C17_SerializedInOrder ==
  IsSome(channel) =>
    LET c == Unwrap(channel)
    IN /\ \A i \in DOMAIN c.handled : c.handled[i] = i
       /\ \A i \in DOMAIN c.answered : c.answered[i] = i
       /\ Len(c.handled) <= Len(c.answered) + 1
       /\ \A i \in DOMAIN c.handled :
            i < Len(c.handled) => c.slots[i] /= NoRsp

\* C17 witness: a handler runs while two later requests wait in the queue
\* and an earlier request has its response.
C17_Witness ==
  /\ IsSome(channel)
  /\ Unwrap(channel).pc = "handle"
  /\ Len(Unwrap(channel).queue) >= 2
  /\ Len(Unwrap(channel).answered) >= 1

\* Whether every request taken off the queue has its response, the one in
\* progress excepted.
AllAnswered(c) ==
  \A k \in DOMAIN c.handled :
    \/ c.slots[c.handled[k]] /= NoRsp
    \/ (c.handled[k] = c.current /\ c.pc \in {"handle", "send", "halted"})

\* The safety part of C18.
C18_Safe ==
  IsSome(channel) =>
    LET c == Unwrap(channel)
    IN /\ AllAnswered(c)
       /\ c.pc = "halted" <=> status = "halted"
       /\ \A k \in c.failed :
            /\ c.pc = "halted" /\ c.current = k
            /\ c.handled[Len(c.handled)] = k
       /\ c.pc = "returned" =>
            /\ c.closed /\ c.queue = << >>
            /\ \A k \in DOMAIN c.handled : c.slots[c.handled[k]] /= NoRsp

\* What a step of C18 may do: a worker that halted or returned does nothing
\* more, and the loop ends in a return exactly from a closed and drained
\* queue.
C18_Step ==
  IsSome(channel) =>
    LET c == Unwrap(channel)
        d == Unwrap(channel')
    IN /\ c.pc \in {"halted", "returned"} =>
            /\ d.pc = c.pc /\ d.handled = c.handled /\ d.answered = c.answered
            /\ UNCHANGED worker_vars
       /\ (c.pc = "recv" /\ d.pc = "returned") => (c.closed /\ c.queue = << >>)
       /\ (c.pc = "recv" /\ c.closed /\ c.queue = << >> /\ d.pc /= c.pc) =>
            d.pc = "returned"

\* C18: every request taken off the queue gets a response on its slot
\* unless the worker halts in its handler; after a failure of init_chain,
\* begin_block, end_block or commit the worker is halted and takes no
\* later request; and the worker returns Ok only from a closed queue, with
\* no handler left unfinished and every request it took answered.
C18_NoSilentRequest == []C18_Safe /\ [][C18_Step]_vars

\* C18 witness: begin_block failed, the worker halted without a response,
\* and later requests are left in the queue.
C18_Witness ==
  /\ IsSome(channel)
  /\ LET c == Unwrap(channel)
     IN /\ c.pc = "halted" /\ c.failed /= {}
        /\ c.script[c.current].type = "BeginBlock"
        /\ c.slots[c.current] = NoRsp
        /\ c.queue /= << >>

RECURSIVE SumOfAllocations(_, _)
SumOfAllocations(allocations, denom) ==
  IF allocations = << >> THEN 0
  ELSE (IF Head(allocations)[1] = denom THEN Head(allocations)[2] ELSE 0)
       + SumOfAllocations(Tail(allocations), denom)

HasAllocation(allocations, denom) ==
  \E i \in DOMAIN allocations : allocations[i][1] = denom

\* The supply_updates of the genesis block init_chain builds from a genesis
\* document: the allocation loop, then the denom loop.
GenesisSupplyUpdates(g) ==
  RegisterDenoms(
    Unwrap(AccumulateAllocations([a \in Assets |-> NoUpdate], g.allocations,
                                 overflow_checks)))

\* C20: when init_chain succeeds on a genesis document whose totals are
\* amounts (they fit the u64 of a supply), the supply_updates of its genesis
\* block hold, for every denomination with allocations, the sum of their
\* amounts, and supply 0 for the delegation token of every genesis
\* validator that has no allocation; commit_block is handed these values.
C20_GenesisSupplyAccounting ==
  [][\A g \in GenesisPool :
       ( /\ InitChain(g)
         /\ rsp' = Rsp("InitChain", 0)
         /\ \A d \in Assets : SumOfAllocations(g.allocations, d) \in U64 )
       => \A d \in Assets :
            /\ HasAllocation(g.allocations, d) =>
                 /\ GenesisSupplyUpdates(g)[d] = SumOfAllocations(g.allocations, d)
                 /\ state'.supply[d] = SumOfAllocations(g.allocations, d)
            /\ ( /\ ~HasAllocation(g.allocations, d)
                 /\ \E v \in GenesisValidators : d = DelegationToken(v) )
               => /\ GenesisSupplyUpdates(g)[d] = 0
                  /\ state'.supply[d] = 0 ]_vars

\* C20 witness: init_chain succeeded on the genesis document with two
\* allocations of the staking token, one of the delegation token of
\* validator 1 and none of the delegation token of validator 2.
C20_Witness ==
  /\ req = "InitChain" /\ rsp = Rsp("InitChain", 0)
  /\ state.supply[STAKING_TOKEN_ASSET_ID] = 6
  /\ state.supply[DelegationToken(1)] = 3
  /\ state.supply[DelegationToken(2)] = 0

\* C21: a sum of supply amounts or of delegation deltas that leaves its
\* integer range halts the worker: an InitChain whose allocations of one
\* denomination add up to more than a u64 holds, and an EndBlock closing an
\* epoch in which the persisted and the in-block delegation change of a
\* validator add up to a value outside i64, are not answered and commit
\* nothing.
C21_SumsOverflowChecked ==
  [][ /\ \A g \in GenesisPool :
          ( /\ InitChain(g) /\ g.decodes
            /\ \E d \in Assets : SumOfAllocations(g.allocations, d) \notin U64 )
          => (status' = "halted" /\ rsp' = NoRsp)
      /\ ( /\ EndBlock /\ IsSome(pending_block) /\ ClosesEpoch(state)
           /\ \E v \in Validators :
                ~InI64(MergedDelegationChange(
                         Unwrap(pending_block), state,
                         EpochIndex(state.height + 1,
                                    state.chain_params.epoch_duration), v)) )
          => (status' = "halted" /\ rsp' = NoRsp) ]_vars

\* The pending block with its height and epoch set and the quarantined
\* notes and nullifiers of the validators slashed in it staged for revert.
HeightAndReverts(pb, st, height) ==
  [pb EXCEPT
     !.height = Some(height),
     !.epoch = Some(height \div st.chain_params.epoch_duration),
     !.reverting_notes = @ \cup
        quarantined(st.quarantined_notes, None, pb.slashed_validators),
     !.reverting_nullifiers = @ \cup
        quarantined(st.quarantined_nullifiers, None, pb.slashed_validators)]

\* C22: an EndBlock for height h sets the block's height to h and its epoch
\* to h / epoch_duration and stages the slash reverts; it runs end_epoch
\* (which stages the next rates, or halts the worker) exactly when
\* h = (epoch + 1) * epoch_duration - 1, over the block with the reverts
\* staged, and otherwise leaves the block as it is; InitChain commits the
\* genesis block at height 0 with the rates and validators of the genesis
\* document, without an end_epoch.
C22_EpochBoundary ==
  [][ /\ (EndBlock /\ IsSome(pending_block)) =>
          LET pb == Unwrap(pending_block)
              after == Unwrap(pending_block')
              h == state.height + 1
              d == state.chain_params.epoch_duration
              reverted == HeightAndReverts(pb, state, h)
          IN /\ after.height = Some(h)
             /\ after.epoch = Some(h \div d)
             /\ reverted.reverting_notes \subseteq after.reverting_notes
             /\ reverted.reverting_nullifiers \subseteq after.reverting_nullifiers
             /\ IF h = ((h \div d) + 1) * d - 1
                THEN \/ status' = "halted"
                     \/ /\ IsSome(after.next_rates)
                        /\ IsSome(after.next_base_rate)
                        /\ IsSome(after.next_validator_statuses)
                        /\ after = end_epoch(reverted, state, overflow_checks).pb
                ELSE status' = "running" /\ after = reverted
      /\ \A g \in GenesisPool :
           (InitChain(g) /\ rsp' = Rsp("InitChain", 0)) =>
             /\ state'.height = 0
             /\ state'.base_rate = commit_genesis(state, g).base_rate
             /\ state'.validators = commit_genesis(state, g).validators ]_vars

\* C22 witness: with epoch_duration 2 the EndBlock of height 2, the first
\* block of epoch 1, was answered without staging rates, after the block of
\* height 1 closed epoch 0 and its end_epoch moved the base rate on.
C22_Witness ==
  /\ status = "running" /\ req = "EndBlock" /\ rsp = Rsp("EndBlock", 0)
  /\ state.chain_params.epoch_duration = 2 /\ state.height = 1
  /\ state.base_rate /= [epoch_index |-> 1, rate |-> RateUnit,
                         reward |-> BASE_REWARD_RATE]
  /\ IsSome(pending_block)
  /\ Unwrap(pending_block).height = Some(2)
  /\ Unwrap(pending_block).epoch = Some(1)
  /\ IsNone(Unwrap(pending_block).next_rates)

\* The number of funding streams of the validators of vs that are not held.
RECURSIVE StreamsOfUpdated(_, _, _)
StreamsOfUpdated(pb, st, vs) ==
  IF vs = {} THEN 0
  ELSE LET v == CHOOSE x \in vs : TRUE
       IN (IF HoldsRate(pb.validator_state_machine[v].state) THEN 0
           ELSE Len(st.funding_streams[v]))
          + StreamsOfUpdated(pb, st, vs \ {v})

\* The staking supply end_epoch stages when validator v has no delegation
\* change at all, persisted or in the block.
StakingSupplyWithout(pb, st, v, checks) ==
  end_epoch([pb EXCEPT !.delegation_changes[v] = 0],
            [st EXCEPT !.delegation_changes[Unwrap(pb.epoch)][v] = 0],
            checks).pb.supply_updates[STAKING_TOKEN_ASSET_ID]

C24_LiveAccumulatorIsolated ==
  /\ [](status = "running" =>
          note_commitment_tree = state.note_commitment_tree)
  /\ [][ /\ note_commitment_tree' /= note_commitment_tree =>
              req' \in {"Commit", "InitChain"}
         /\ ( \/ \E evidence \in EvidencePool : BeginBlock(evidence)
              \/ \E t \in Txs : DeliverTx(t)
              \/ EndBlock )
            => note_commitment_tree' = note_commitment_tree ]_vars

\* C24 witness: the worker halted in the EndBlock of a block that had
\* staged output notes; the block will never be committed and none of its
\* notes is in the live accumulator.
C24_Witness ==
  /\ status = "halted" /\ req = "EndBlock"
  /\ IsSome(pending_block)
  /\ Unwrap(pending_block).notes /= {}
  /\ Unwrap(pending_block).notes \subseteq
       Unwrap(pending_block).note_commitment_tree
  /\ Unwrap(pending_block).notes \cap note_commitment_tree = {}
  /\ note_commitment_tree /= {}


\* ------------------------------------------------- C25
\* What end_epoch stages for validator v from the table of the pending block:
\* the rate pushed at line 535 and the voting power pushed at line 536.
StagedRateOf(pb, st, v) ==
  LET info == pb.validator_state_machine[v]
  IN IF HoldsRate(info.state)
     THEN hold_rate_constant(info.rate_data, Unwrap(pb.epoch) + 2)
     ELSE RateNext(info.rate_data, Unwrap(pb.next_base_rate),
                   st.funding_streams[v])

StagedPowerOf(pb, st, v) ==
  LET info == pb.validator_state_machine[v]
  IN IF HoldsRate(info.state)
     THEN info.voting_power
     ELSE voting_power(StagedRateOf(pb, st, v),
                       pb.supply_updates[DelegationToken(v)],
                       Unwrap(pb.next_base_rate))

\* The two staged lists have one entry per validator of the table, in the
\* order of the table; entry k of both belongs to validator k of the table,
\* and the rotation left identity key and voting power of every status alone.
TablesAligned(pb, st) ==
  LET order == validators_info(pb.validator_state_machine)
      rates == Unwrap(pb.next_rates)
      statuses == Unwrap(pb.next_validator_statuses)
  IN /\ Len(rates) = Len(order)
     /\ Len(statuses) = Len(order)
     /\ \A k \in DOMAIN order :
          /\ statuses[k].identity_key = order[k]
          /\ rates[k] = StagedRateOf(pb, st, order[k])
          /\ statuses[k].voting_power = StagedPowerOf(pb, st, order[k])

====
